---------------------------- MODULE Spec2Model ----------------------------
(***************************************************************************)
(* Model of the report processing pipeline of the health analytics API:    *)
(* parameter extraction, reference-range classification, insight           *)
(* derivation, risk scoring, trend aggregation, the upload handler and the *)
(* risk predictor.                                                         *)
(*                                                                         *)
(* Conventions.  A Python str is a sequence of one-character strings.  A   *)
(* Python float is carried as an integer number of tenths (12.0 is 120,    *)
(* 5.5 is 55); every literal of the source has at most one fractional      *)
(* digit and the input vocabulary keeps numeric tokens to one fractional   *)
(* digit, so the representation is exact.  A Python dict is the sequence   *)
(* of its items in insertion order.                                        *)
(***************************************************************************)
EXTENDS Integers, Sequences, FiniteSets, TLC

VARIABLES
    pc,               \* position of the process_report_file call
    file_type,        \* declared content type of the file
    text,             \* text returned by the extraction strategy
    extracted_data,   \* result of parse_medical_data
    processed_data,   \* result of classify_data
    insights,         \* result of generate_insights
    risk_score,       \* result of calculate_ml_risk_score, tenths of a percent
    rule_score,       \* result of calculate_risk_score, a fraction
    error,            \* exception that left the call, "none" if none
    stdout,           \* messages printed by calculate_ml_risk_score
    health_predictor, \* the module-level HealthRiskPredictor
    predicted,        \* what the last predict_risk call did
    model_file,       \* the artifact at each path: <<>> if absent, else <<bundle>>
    db_reports,       \* the report rows handed to generate_trends
    trends,           \* result of generate_trends
    db_report,        \* the report row handed to generate_pdf_report
    story,            \* the flowables generate_pdf_report builds the PDF from
    files,            \* the working directory: file name -> content
    db,               \* the reports table, in order of insertion
    req               \* the upload_report invocations

pipelineVars == <<pc, file_type, text, extracted_data, processed_data,
                  insights, risk_score, rule_score, error, stdout>>

predictorVars == <<health_predictor, predicted, model_file>>

trendVars == <<db_reports, trends>>

pdfVars == <<db_report, story>>

uploadVars == <<files, db, req>>

vars == <<pipelineVars, predictorVars, trendVars, pdfVars, uploadVars>>

-----------------------------------------------------------------------------
(* Bounds *)

\* number of words (line breaks included) of a text handed to parse_medical_data
MaxTokens == 5

\* number of words (line breaks included) of a file handed to process_report_file
MaxFileTokens == 3

\* number of items of a dict handed to classify_data
MaxParams == 2

\* number of report rows handed to generate_trends
MaxReports == 2

\* number of classified entries of a stored report
MaxEntries == 2

\* number of upload_report invocations
NumRequests == 2

-----------------------------------------------------------------------------
(* Python str helpers *)

UPPER == <<"A","B","C","D","E","F","G","H","I","J","K","L","M",
           "N","O","P","Q","R","S","T","U","V","W","X","Y","Z">>
LOWER == <<"a","b","c","d","e","f","g","h","i","j","k","l","m",
           "n","o","p","q","r","s","t","u","v","w","x","y","z">>
DIGITS == <<"0","1","2","3","4","5","6","7","8","9">>

\* str.lower() on one character
lower_char(c) ==
    IF \E i \in 1..26 : UPPER[i] = c
    THEN LOWER[CHOOSE i \in 1..26 : UPPER[i] = c]
    ELSE c

\* str.lower()
lower(s) == [i \in 1..Len(s) |-> lower_char(s[i])]

\* the operator `in` on two str: sub occurs in s as a contiguous run
str_in(sub, s) ==
    \E k \in 0..(Len(s) - Len(sub)) :
        \A j \in 1..Len(sub) : s[k + j] = sub[j]

IsDigit(c) == \E i \in 1..10 : DIGITS[i] = c

DigitValue(c) == (CHOOSE i \in 1..10 : DIGITS[i] = c) - 1

\* str.split('\n'): the pieces between line breaks, empty pieces included
RECURSIVE split_from(_, _, _)
split_from(s, i, cur) ==
    IF i > Len(s) THEN <<cur>>
    ELSE IF s[i] = "\n" THEN <<cur>> \o split_from(s, i + 1, <<>>)
    ELSE split_from(s, i + 1, Append(cur, s[i]))

split(s) == split_from(s, 1, <<>>)

\* end of the maximal run of digits starting at position i (i - 1 if none)
RECURSIVE digits_end(_, _)
digits_end(s, i) ==
    IF i <= Len(s) /\ IsDigit(s[i]) THEN digits_end(s, i + 1) ELSE i - 1

\* variant: the pattern takes a leading minus sign, r'-?\d+\.?\d*'
RECURSIVE findall_from_signed(_, _)
findall_from_signed(s, i) ==
    IF i > Len(s) THEN <<>>
    ELSE IF ~IsDigit(s[i]) THEN findall_from_signed(s, i + 1)
    ELSE LET e1 == digits_end(s, i)
             e2 == IF e1 + 1 <= Len(s) /\ s[e1 + 1] = "." THEN e1 + 1 ELSE e1
             e3 == IF digits_end(s, e2 + 1) >= e2 + 1
                   THEN digits_end(s, e2 + 1) ELSE e2
             b  == IF i > 1 /\ s[i - 1] = "-" THEN i - 1 ELSE i
         IN  <<SubSeq(s, b, e3)>> \o findall_from_signed(s, e3 + 1)

\* re.findall(r'\d+\.?\d*', s): the non-overlapping matches, left to right
RECURSIVE findall_from(_, _)
findall_from(s, i) ==
    IF i > Len(s) THEN <<>>
    ELSE IF ~IsDigit(s[i]) THEN findall_from(s, i + 1)
    ELSE LET e1 == digits_end(s, i)
             e2 == IF e1 + 1 <= Len(s) /\ s[e1 + 1] = "." THEN e1 + 1 ELSE e1
             e3 == IF digits_end(s, e2 + 1) >= e2 + 1
                   THEN digits_end(s, e2 + 1) ELSE e2
         IN  <<SubSeq(s, i, e3)>> \o findall_from(s, e3 + 1)

\* variant: the matches of the pattern with a leading minus sign
findall_signed(s) == findall_from_signed(s, 1)

findall(s) == findall_from(s, 1)

\* value of a run of digits read as a decimal integer
RECURSIVE int_of(_)
int_of(ds) ==
    IF ds = <<>> THEN 0
    ELSE 10 * int_of(SubSeq(ds, 1, Len(ds) - 1)) + DigitValue(ds[Len(ds)])

\* float(s) of digits with an optional fraction, in tenths; the numeric
\* tokens of the documents have at most one fractional digit
float_unsigned(s) ==
    LET e1 == digits_end(s, 1)
        ip == int_of(SubSeq(s, 1, e1))
        fd == IF e1 + 2 <= Len(s) THEN DigitValue(s[e1 + 2]) ELSE 0
    IN  10 * ip + fd

\* float(s): a leading minus sign negates the value
float(s) ==
    IF s # <<>> /\ s[1] = "-"
    THEN 0 - float_unsigned(SubSeq(s, 2, Len(s)))
    ELSE float_unsigned(s)

-----------------------------------------------------------------------------
(* Reference data *)

\* NORMAL_RANGES, min and max in tenths
NORMAL_RANGES == [
    Hemoglobin    |-> [min |-> 120,  max |-> 160,  unit |-> "g/dL"],
    RBC           |-> [min |-> 40,   max |-> 55,   unit |-> "million/uL"],
    WBC           |-> [min |-> 40,   max |-> 110,  unit |-> "thousand/uL"],
    Platelets     |-> [min |-> 1500, max |-> 4500, unit |-> "thousand/uL"],
    Glucose       |-> [min |-> 700,  max |-> 1000, unit |-> "mg/dL"],
    Cholesterol   |-> [min |-> 0,    max |-> 2000, unit |-> "mg/dL"],
    HDL           |-> [min |-> 400,  max |-> 600,  unit |-> "mg/dL"],
    LDL           |-> [min |-> 0,    max |-> 1300, unit |-> "mg/dL"],
    Triglycerides |-> [min |-> 0,    max |-> 1500, unit |-> "mg/dL"] ]

\* NORMAL_RANGES.keys(), in the order the dict literal lists them
NORMAL_RANGES_keys ==
    <<"Hemoglobin", "RBC", "WBC", "Platelets", "Glucose", "Cholesterol",
      "HDL", "LDL", "Triglycerides">>

\* the characters of a parameter name
Chars(name) ==
    CASE name = "Hemoglobin"    -> <<"H","e","m","o","g","l","o","b","i","n">>
      [] name = "RBC"           -> <<"R","B","C">>
      [] name = "WBC"           -> <<"W","B","C">>
      [] name = "Platelets"     -> <<"P","l","a","t","e","l","e","t","s">>
      [] name = "Glucose"       -> <<"G","l","u","c","o","s","e">>
      [] name = "Cholesterol"   -> <<"C","h","o","l","e","s","t","e","r","o","l">>
      [] name = "HDL"           -> <<"H","D","L">>
      [] name = "LDL"           -> <<"L","D","L">>
      [] name = "Triglycerides" -> <<"T","r","i","g","l","y","c","e","r","i","d","e","s">>

\* HEALTH_INSIGHTS: only the verdicts listed have an entry
HEALTH_INSIGHTS == [
    Hemoglobin  |-> [
        low  |-> [insight |-> "Possible anemia",
                  recommendation |-> "Consult a doctor for possible iron deficiency."],
        high |-> [insight |-> "Possible dehydration or other conditions",
                  recommendation |-> "Ensure adequate hydration and consult a doctor."] ],
    Glucose     |-> [
        high |-> [insight |-> "Risk of diabetes",
                  recommendation |-> "Monitor blood sugar levels."],
        low  |-> [insight |-> "Possible hypoglycemia",
                  recommendation |-> "Eat regular meals and consult a doctor."] ],
    Cholesterol |-> [
        high |-> [insight |-> "Risk of cardiovascular disease",
                  recommendation |-> "Reduce saturated fat intake, exercise regularly."] ],
    WBC         |-> [
        high |-> [insight |-> "Possible infection or inflammation",
                  recommendation |-> "Monitor for signs of infection."],
        low  |-> [insight |-> "Possible immune system issues",
                  recommendation |-> "Avoid exposure to infections and consult a doctor."] ] ]

-----------------------------------------------------------------------------
(* Python dict as the sequence of its items *)

dict_has(d, k) == \E i \in 1..Len(d) : d[i].key = k

dict_get(d, k) == d[CHOOSE i \in 1..Len(d) : d[i].key = k].value

\* d[k] = v: an existing key keeps its position, a new key goes last
dict_set(d, k, v) ==
    IF dict_has(d, k)
    THEN [i \in 1..Len(d) |-> IF d[i].key = k THEN [key |-> k, value |-> v] ELSE d[i]]
    ELSE Append(d, [key |-> k, value |-> v])


-----------------------------------------------------------------------------
(* The stages of the pipeline *)

\* variant: the loop goes on after a key has taken the number
RECURSIVE scan_parameters_no_break(_, _, _)
scan_parameters_no_break(line, i, data) ==
    IF i > Len(NORMAL_RANGES_keys) THEN data
    ELSE LET parameter == NORMAL_RANGES_keys[i]
             numbers == findall(line)
         IN  scan_parameters_no_break(line, i + 1,
                 IF str_in(lower(Chars(parameter)), lower(line)) /\ numbers # <<>>
                 THEN dict_set(data, parameter, float(numbers[1]))
                 ELSE data)

\* the loop over NORMAL_RANGES.keys() for one line, from the i-th key on:
\* the first key found in the line takes numbers[0] and ends the loop; a key
\* found in a line without numbers lets the loop go on
RECURSIVE scan_parameters(_, _, _)
scan_parameters(line, i, data) ==
    IF i > Len(NORMAL_RANGES_keys) THEN data
    ELSE LET parameter == NORMAL_RANGES_keys[i]
             numbers == findall(line)
         IN  IF str_in(lower(Chars(parameter)), lower(line)) /\ numbers # <<>>
             THEN dict_set(data, parameter, float(numbers[1]))
             ELSE scan_parameters(line, i + 1, data)

\* the loop over the lines
RECURSIVE scan_lines(_, _, _)
scan_lines(lines, n, data) ==
    IF n > Len(lines) THEN data
    ELSE scan_lines(lines, n + 1, scan_parameters(lines[n], 1, data))

parse_medical_data(t) == scan_lines(split(t), 1, <<>>)

\* variant: the boundaries fall outside the normal range
classification_of_strict(parameter, value) ==
    IF value <= NORMAL_RANGES[parameter].min THEN "Low"
    ELSE IF value >= NORMAL_RANGES[parameter].max THEN "High"
    ELSE "Normal"

\* the verdict for a value of a reference parameter
classification_of(parameter, value) ==
    IF value < NORMAL_RANGES[parameter].min THEN "Low"
    ELSE IF value > NORMAL_RANGES[parameter].max THEN "High"
    ELSE "Normal"

\* classify_data: one entry per item of data whose key is a reference
\* parameter, in the order of the items
RECURSIVE classify_data(_)
classify_data(data) ==
    IF data = <<>> THEN <<>>
    ELSE LET parameter == Head(data).key
             value == Head(data).value
         IN  (IF parameter \in DOMAIN NORMAL_RANGES
              THEN << [parameter |-> parameter,
                       value |-> value,
                       unit |-> NORMAL_RANGES[parameter].unit,
                       range_min |-> NORMAL_RANGES[parameter].min,
                       range_max |-> NORMAL_RANGES[parameter].max,
                       classification |-> classification_of(parameter, value)] >>
              ELSE <<>>)
             \o classify_data(Tail(data))

\* classification.lower()
verdict_key(classification) ==
    CASE classification = "Low" -> "low"
      [] classification = "High" -> "high"
      [] classification = "Normal" -> "normal"

\* the lookup HEALTH_INSIGHTS[parameter][classification.lower()] exists
has_insight(parameter, classification) ==
    verdict_key(classification) \in DOMAIN HEALTH_INSIGHTS[parameter]

\* variant: each insight is put in front of the earlier ones
RECURSIVE insights_loop_prepend(_, _)
insights_loop_prepend(data, acc) ==
    IF data = <<>> THEN [raised |-> "none", value |-> acc]
    ELSE LET parameter == Head(data).parameter
             classification == Head(data).classification
         IN  IF parameter \in DOMAIN HEALTH_INSIGHTS /\ classification \in {"Low", "High"}
             THEN IF has_insight(parameter, classification)
                  THEN LET insight_info == HEALTH_INSIGHTS[parameter][verdict_key(classification)]
                       IN  insights_loop_prepend(Tail(data),
                               <<[parameter |-> parameter,
                                  insight |-> insight_info.insight,
                                  recommendation |-> insight_info.recommendation]>> \o acc)
                  ELSE [raised |-> "KeyError", value |-> <<>>]
             ELSE insights_loop_prepend(Tail(data), acc)

\* generate_insights: the list built so far, or KeyError as soon as the
\* lookup of a Low/High verdict misses
RECURSIVE insights_loop(_, _)
insights_loop(data, acc) ==
    IF data = <<>> THEN [raised |-> "none", value |-> acc]
    ELSE LET parameter == Head(data).parameter
             classification == Head(data).classification
         IN  IF parameter \in DOMAIN HEALTH_INSIGHTS /\ classification \in {"Low", "High"}
             THEN IF has_insight(parameter, classification)
                  THEN LET insight_info == HEALTH_INSIGHTS[parameter][verdict_key(classification)]
                       IN  insights_loop(Tail(data),
                               Append(acc, [parameter |-> parameter,
                                            insight |-> insight_info.insight,
                                            recommendation |-> insight_info.recommendation]))
                  ELSE [raised |-> "KeyError", value |-> <<>>]
             ELSE insights_loop(Tail(data), acc)

generate_insights(data) == insights_loop(data, <<>>)

\* number of Low/High entries
RECURSIVE total_abnormal(_)
total_abnormal(data) ==
    IF data = <<>> THEN 0
    ELSE (IF Head(data).classification \in {"Low", "High"} THEN 1 ELSE 0)
         + total_abnormal(Tail(data))

\* variant: no guard for the empty sequence
calculate_risk_score_unguarded(data) ==
    [num |-> total_abnormal(data) * 100, den |-> Len(data)]

\* calculate_risk_score: the quotient (total_abnormal / total_parameters) * 100
\* as the fraction num / den; 0.0 is 0 / 1
calculate_risk_score(data) ==
    IF Len(data) = 0 THEN [num |-> 0, den |-> 1]
    ELSE [num |-> total_abnormal(data) * 100, den |-> Len(data)]


-----------------------------------------------------------------------------
(* Documents and content types *)

\* the words a document is made of; "\n" ends a line
Words == {
    <<"G","l","u","c","o","s","e">>,
    <<"H","E","M","O","G","L","O","B","I","N">>,
    <<"C","h","o","l","e","s","t","e","r","o","l">>,
    <<"9","0">>,
    <<"9",".","5">>,
    <<"-","3","0","0">>,
    <<"\n">> }

\* documents of at most n words
Documents(n) == UNION { [1..k -> Words] : k \in 0..n }

\* the text of a document: its words, each followed by a blank unless it
\* is a line break
RECURSIVE render(_)
render(doc) ==
    IF doc = <<>> THEN <<>>
    ELSE (IF Head(doc) = <<"\n">> THEN Head(doc) ELSE Head(doc) \o <<" ">>)
         \o render(Tail(doc))

IMAGE_PNG == <<"i","m","a","g","e","/","p","n","g">>
APPLICATION_PDF == <<"a","p","p","l","i","c","a","t","i","o","n","/","p","d","f">>
TEXT_CSV == <<"t","e","x","t","/","c","s","v">>
TEXT_PLAIN == <<"t","e","x","t","/","p","l","a","i","n">>
IMAGEX_RAW == <<"i","m","a","g","e","x","/","r","a","w">>
TEXT_CSV_UTF8 == <<"t","e","x","t","/","c","s","v",";","c","h","a","r","s","e","t","=","u","t","f","-","8">>

\* declared content types: one per strategy, and types outside image/*,
\* application/pdf and text/csv
FileTypes == {IMAGE_PNG, APPLICATION_PDF, TEXT_CSV, TEXT_PLAIN, IMAGEX_RAW, TEXT_CSV_UTF8}

\* str.startswith
startswith(s, prefix) ==
    Len(s) >= Len(prefix) /\ SubSeq(s, 1, Len(prefix)) = prefix

\* the extraction strategy process_report_file selects, "none" if none
strategy(ft) ==
    IF startswith(ft, <<"i","m","a","g","e">>) THEN "image"
    ELSE IF ft = APPLICATION_PDF THEN "pdf"
    ELSE IF ft = TEXT_CSV THEN "csv"
    ELSE "none"

-----------------------------------------------------------------------------
(* HealthRiskPredictor *)

None == "None"

\* the fixed fallback 50.0, in tenths of a percent
FALLBACK == 500

\* HealthRiskPredictor.__init__
new_predictor == [model |-> None, scaler |-> "unfitted", is_trained |-> FALSE]

\* the fitted models: the one train_model fits (its data and its seeds are
\* fixed), and one fitted elsewhere that an artifact can hold
FittedModels == {"fitted", "fitted_elsewhere"}

\* train_model: the states the predictor can be left in.  The call raises
\* in train_test_split, in the scaler, in model.fit or in the evaluation,
\* or it returns; is_trained is set last.
train_model_outcomes(p) ==
    { [raised |-> TRUE,  self |-> p],
      [raised |-> TRUE,  self |-> [p EXCEPT !.scaler = "fitted"]],
      [raised |-> TRUE,  self |-> [p EXCEPT !.scaler = "fitted", !.model = "unfitted"]],
      [raised |-> TRUE,  self |-> [p EXCEPT !.scaler = "fitted", !.model = "fitted"]],
      [raised |-> FALSE, self |-> [model |-> "fitted", scaler |-> "fitted", is_trained |-> TRUE]] }

\* the module-level predictor after the import-time try block
ImportedPredictors == { o.self : o \in train_model_outcomes(new_predictor) }

\* scores predict_proba can give, in tenths of a percent
Probabilities == {0, 365, 1000}

\* the order of the feature vector
parameters ==
    <<"Hemoglobin", "WBC", "RBC", "Platelets", "Glucose", "Cholesterol",
      "HDL", "LDL", "Triglycerides">>

\* the value used for a parameter the report lacks, in tenths
default_values == [
    Hemoglobin |-> 140, WBC |-> 75, RBC |-> 47, Platelets |-> 3000,
    Glucose |-> 900, Cholesterol |-> 1800, HDL |-> 500, LDL |-> 1000,
    Triglycerides |-> 1200 ]

\* the feature vector of a report
features_of(report_data) ==
    [i \in 1..Len(parameters) |->
        IF dict_has(report_data, parameters[i])
        THEN dict_get(report_data, parameters[i])
        ELSE default_values[parameters[i]]]

\* predict_proba(...)[0][1] * 100 of a fitted model: a fixed function of
\* the model and of the features (here, of the Glucose feature), so two
\* calls with one model and one feature vector agree and the two models
\* differ on every feature vector
predict_proba(model, features) ==
    LET high == features[5] > 1000
    IN  IF model = "fitted"
        THEN (IF high THEN 1000 ELSE 365)
        ELSE (IF high THEN 365 ELSE 0)

\* variant: the default is returned only when both conditions hold
is_untrained_both(self) == ~self.is_trained /\ self.model = None

\* the guard of predict_risk
is_untrained(self) == ~self.is_trained \/ self.model = None

\* predict_risk: the outcomes of one call.  An untrained predictor returns
\* the default before anything else; otherwise the features are built,
\* scaler.transform and predict_proba are called, and each raises when its
\* object is unfitted and may raise on the features it is given.
predict_risk(self, report_data) ==
    IF is_untrained(self)
    THEN { [raised |-> "none", value |-> FALLBACK, features |-> <<>>,
            scaler_used |-> FALSE, model_used |-> FALSE] }
    ELSE LET features == features_of(report_data)
         IN  { [raised |-> "scaler", value |-> 0, features |-> features,
                scaler_used |-> TRUE, model_used |-> FALSE] }
             \cup (IF self.scaler = "fitted"
                   THEN { [raised |-> "model", value |-> 0, features |-> features,
                           scaler_used |-> TRUE, model_used |-> TRUE] }
                        \cup (IF self.model \in FittedModels
                              THEN { [raised |-> "none",
                                      value |-> predict_proba(self.model, features),
                                      features |-> features,
                                      scaler_used |-> TRUE, model_used |-> TRUE] }
                              ELSE {})
                   ELSE {})

\* variant: the exception of predict_risk is passed on
calculate_ml_risk_score_reraise(outcome) ==
    IF outcome.raised = "none"
    THEN [raised |-> "none", value |-> outcome.value, printed |-> <<>>]
    ELSE [raised |-> outcome.raised, value |-> FALLBACK,
          printed |-> <<"ML model prediction failed">>]

\* calculate_ml_risk_score, given the outcome of its predict_risk call:
\* every exception is caught and replaced by the fallback
calculate_ml_risk_score(outcome) ==
    IF outcome.raised = "none"
    THEN [raised |-> "none", value |-> outcome.value, printed |-> <<>>]
    ELSE [raised |-> "none", value |-> FALLBACK,
          printed |-> <<"ML model prediction failed">>]

\* variant: the scaler is left out of the artifact, which then holds a new one
save_model_without_scaler(self, file) ==
    IF self.is_trained /\ self.model # None
    THEN << [model |-> self.model, scaler |-> "unfitted", is_trained |-> self.is_trained] >>
    ELSE file

\* save_model: the artifact is written only by a trained predictor
save_model(self, file) ==
    IF self.is_trained /\ self.model # None
    THEN << [model |-> self.model, scaler |-> self.scaler, is_trained |-> self.is_trained] >>
    ELSE file

\* load_model: joblib.load raises on an absent artifact, otherwise the
\* three fields are taken from the bundle as they are
load_model(self, file) ==
    IF file = <<>>
    THEN [raised |-> "FileNotFoundError", self |-> self]
    ELSE [raised |-> "none",
          self |-> [model |-> file[1].model, scaler |-> file[1].scaler,
                    is_trained |-> file[1].is_trained]]

\* the bundles an artifact can hold
Bundles == [model : {None, "unfitted"} \cup FittedModels, scaler : {"unfitted", "fitted"},
            is_trained : BOOLEAN]

\* report dictionaries handed to predict_risk
SampleData == {
    <<>>,
    << [key |-> "Glucose", value |-> 3000] >>,
    << [key |-> "Hemoglobin", value |-> 135], [key |-> "WBC", value |-> 72],
       [key |-> "RBC", value |-> 48], [key |-> "Platelets", value |-> 2500],
       [key |-> "Glucose", value |-> 850], [key |-> "Cholesterol", value |-> 1800],
       [key |-> "HDL", value |-> 550], [key |-> "LDL", value |-> 1100],
       [key |-> "Triglycerides", value |-> 1200] >> }

NotCalled == [raised |-> "not called"]

\* the paths save_model and load_model are called with: the path of the
\* import-time save, and another one
MODEL_PATH == "health_risk_model.pkl"
Paths == {MODEL_PATH, "other.pkl"}

\* the artifacts that can lie at a path before the import: none, or a bundle
Artifacts == {<<>>} \cup { <<b>> : b \in Bundles }

-----------------------------------------------------------------------------
(* Columns of the reports table *)

\* a nullable JSON column: NULL, or a value
Null == [is_null |-> TRUE]
Json(v) == [is_null |-> FALSE, value |-> v]

\* no report row is being rendered
NoReport == [id |-> 0]

-----------------------------------------------------------------------------
(* process_report_file, one action per stage *)

\* no strategy for the declared content type
Unsupported ==
    /\ pc = "start"
    /\ strategy(file_type) = "none"
    /\ pc' = "raised"
    /\ error' = "ValueError"
    /\ UNCHANGED <<file_type, text, extracted_data, processed_data, insights,
                   risk_score, rule_score, stdout, predictorVars, trendVars, pdfVars, uploadVars>>

\* the selected strategy returns the text of the file
Extract ==
    /\ pc = "start"
    /\ strategy(file_type) # "none"
    /\ \E doc \in Documents(MaxFileTokens) : text' = render(doc)
    /\ pc' = "extracted"
    /\ UNCHANGED <<file_type, extracted_data, processed_data, insights,
                   risk_score, rule_score, error, stdout, predictorVars, trendVars, pdfVars, uploadVars>>

\* the selected strategy raises on an unreadable file
ExtractFails ==
    /\ pc = "start"
    /\ strategy(file_type) # "none"
    /\ pc' = "raised"
    /\ error' = "ExtractionFailed"
    /\ UNCHANGED <<file_type, text, extracted_data, processed_data, insights,
                   risk_score, rule_score, stdout, predictorVars, trendVars, pdfVars, uploadVars>>

Parse ==
    /\ pc = "extracted"
    /\ extracted_data' = parse_medical_data(text)
    /\ pc' = "parsed"
    /\ UNCHANGED <<file_type, text, processed_data, insights,
                   risk_score, rule_score, error, stdout, predictorVars, trendVars, pdfVars, uploadVars>>

Classify ==
    /\ pc = "parsed"
    /\ processed_data' = classify_data(extracted_data)
    /\ pc' = "classified"
    /\ UNCHANGED <<file_type, text, extracted_data, insights,
                   risk_score, rule_score, error, stdout, predictorVars, trendVars, pdfVars, uploadVars>>

Insights ==
    /\ pc \in {"classified", "scored"}
    /\ LET r == generate_insights(processed_data)
       IN  IF r.raised = "none"
           THEN /\ insights' = r.value
                /\ pc' = "insights"
                /\ UNCHANGED error
           ELSE /\ error' = r.raised
                /\ pc' = "raised"
                /\ UNCHANGED insights
    /\ UNCHANGED <<file_type, text, extracted_data, processed_data,
                   risk_score, rule_score, stdout, predictorVars, trendVars, pdfVars, uploadVars>>

MLRisk ==
    /\ pc = "insights"
    /\ \E outcome \in predict_risk(health_predictor, extracted_data) :
          LET r == calculate_ml_risk_score(outcome)
          IN  /\ predicted' = outcome
              /\ stdout' = r.printed
              /\ IF r.raised = "none"
                 THEN /\ risk_score' = r.value
                      /\ pc' = "returned"
                      /\ UNCHANGED error
                 ELSE /\ error' = r.raised
                      /\ pc' = "raised"
                      /\ UNCHANGED risk_score
    /\ UNCHANGED <<file_type, text, extracted_data, processed_data, insights,
                   rule_score, health_predictor, model_file, trendVars, pdfVars, uploadVars>>

\* calculate_risk_score on a classified sequence
RuleRisk ==
    /\ pc = "classified"
    /\ rule_score' = calculate_risk_score(processed_data)
    /\ pc' = "scored"
    /\ UNCHANGED <<file_type, text, extracted_data, processed_data, insights,
                   risk_score, error, stdout, predictorVars, trendVars, pdfVars, uploadVars>>

Init ==
    /\ pc = "start"
    /\ file_type \in FileTypes
    /\ text = None
    /\ extracted_data = None
    /\ processed_data = None
    /\ insights = None
    /\ risk_score = None
    /\ rule_score = None
    /\ error = "none"
    /\ stdout = <<>>
    /\ health_predictor \in ImportedPredictors
    /\ predicted = NotCalled
    /\ model_file = <<>>
    /\ db_reports = <<>>
    /\ trends = <<>>
    /\ db_report = NoReport
    /\ story = <<>>
    /\ files = <<>>
    /\ db = <<>>
    /\ req = <<>>

Next ==
    \/ Unsupported
    \/ Extract
    \/ ExtractFails
    \/ Parse
    \/ Classify
    \/ Insights
    \/ MLRisk

Spec == Init /\ [][Next]_vars

-----------------------------------------------------------------------------
(* parse_medical_data and the later stages applied to a text *)

InitParse ==
    /\ pc = "extracted"
    /\ file_type = None
    /\ text \in { render(doc) : doc \in Documents(MaxTokens) }
    /\ extracted_data = None
    /\ processed_data = None
    /\ insights = None
    /\ risk_score = None
    /\ rule_score = None
    /\ error = "none"
    /\ stdout = <<>>
    /\ health_predictor = new_predictor
    /\ predicted = NotCalled
    /\ model_file = <<>>
    /\ db_reports = <<>>
    /\ trends = <<>>
    /\ db_report = NoReport
    /\ story = <<>>
    /\ files = <<>>
    /\ db = <<>>
    /\ req = <<>>

NextParse ==
    \/ Parse
    \/ Classify
    \/ Insights

SpecParse == InitParse /\ [][NextParse]_vars

-----------------------------------------------------------------------------
(* classify_data, generate_insights and calculate_risk_score applied to a
   dictionary *)

\* the values tried for a parameter: one unit below min, min, the middle,
\* max, one unit above max
ValuesOf(parameter) ==
    LET r == NORMAL_RANGES[parameter]
    IN  {r.min - 10, r.min, (r.min + r.max) \div 2, r.max, r.max + 10}

\* items of a dictionary: the reference parameters and a name outside them
Items ==
    UNION { { [key |-> k, value |-> v] : v \in ValuesOf(k) } : k \in DOMAIN NORMAL_RANGES }
    \cup { [key |-> "Sodium", value |-> 1400] }

\* dictionaries of at most n items
Dicts(n) ==
    { d \in UNION { [1..k -> Items] : k \in 0..n } :
        \A i, j \in 1..Len(d) : i # j => d[i].key # d[j].key }

InitStages ==
    /\ pc = "parsed"
    /\ file_type = None
    /\ text = None
    /\ extracted_data \in Dicts(MaxParams)
    /\ processed_data = None
    /\ insights = None
    /\ risk_score = None
    /\ rule_score = None
    /\ error = "none"
    /\ stdout = <<>>
    /\ health_predictor = new_predictor
    /\ predicted = NotCalled
    /\ model_file = <<>>
    /\ db_reports = <<>>
    /\ trends = <<>>
    /\ db_report = NoReport
    /\ story = <<>>
    /\ files = <<>>
    /\ db = <<>>
    /\ req = <<>>

NextStages ==
    \/ Classify
    \/ RuleRisk
    \/ Insights

SpecStages == InitStages /\ [][NextStages]_vars

-----------------------------------------------------------------------------
(* The predictor on its own: import-time training, predict_risk, save_model
   and load_model *)

\* the try block at import: train_model, then save_model if it returned
TrainAtImport ==
    /\ pc = "import"
    /\ \E o \in train_model_outcomes(health_predictor) :
          /\ health_predictor' = o.self
          /\ model_file' = IF o.raised THEN model_file
                           ELSE [model_file EXCEPT
                                   ![MODEL_PATH] = save_model(o.self, model_file[MODEL_PATH])]
          /\ stdout' = IF o.raised THEN <<"Error training model">> ELSE <<"Model trained">>
    /\ pc' = "ready"
    /\ UNCHANGED <<file_type, text, extracted_data, processed_data, insights,
                   risk_score, rule_score, error, predicted, trendVars, pdfVars, uploadVars>>

PredictRisk ==
    /\ pc = "ready"
    /\ \E report_data \in SampleData :
          /\ extracted_data' = report_data
          /\ \E outcome \in predict_risk(health_predictor, report_data) :
                predicted' = outcome
    /\ UNCHANGED <<pc, file_type, text, processed_data, insights,
                   risk_score, rule_score, error, stdout, health_predictor, model_file, trendVars, pdfVars, uploadVars>>

SaveModel(filepath) ==
    /\ pc = "ready"
    /\ model_file' = [model_file EXCEPT
                        ![filepath] = save_model(health_predictor, model_file[filepath])]
    /\ UNCHANGED <<pipelineVars, health_predictor, predicted, trendVars, pdfVars, uploadVars>>

LoadModel(filepath) ==
    /\ pc = "ready"
    /\ LET r == load_model(health_predictor, model_file[filepath])
       IN  /\ health_predictor' = r.self
           /\ error' = r.raised
    /\ predicted' = NotCalled
    /\ UNCHANGED <<pc, file_type, text, extracted_data, processed_data, insights,
                   risk_score, rule_score, stdout, model_file, trendVars, pdfVars, uploadVars>>

InitPredictor ==
    /\ pc = "import"
    /\ file_type = None
    /\ text = None
    /\ extracted_data = <<>>
    /\ processed_data = None
    /\ insights = None
    /\ risk_score = None
    /\ rule_score = None
    /\ error = "none"
    /\ stdout = <<>>
    /\ health_predictor = new_predictor
    /\ predicted = NotCalled
    /\ model_file \in [Paths -> Artifacts]
    /\ db_reports = <<>>
    /\ trends = <<>>
    /\ db_report = NoReport
    /\ story = <<>>
    /\ files = <<>>
    /\ db = <<>>
    /\ req = <<>>

NextPredictor ==
    \/ TrainAtImport
    \/ PredictRisk
    \/ \E filepath \in Paths : SaveModel(filepath)
    \/ \E filepath \in Paths : LoadModel(filepath)

SpecPredictor == InitPredictor /\ [][NextPredictor]_vars

-----------------------------------------------------------------------------
(* generate_trends over the report rows of a user *)

\* truth value of a column in `if report.processed_data:`
truthy(column) == ~column.is_null /\ column.value # <<>>

\* datetime.isoformat() of a timestamp
isoformat(created_at) == [iso |-> created_at]

\* variant: the entry replaces the series of its parameter
add_trend_overwrite(t, parameter, entry) ==
    dict_set(t, parameter, <<entry>>)

\* the body of the inner loop: a new parameter starts an empty series, then
\* the entry is appended to the series of its parameter
add_trend(t, parameter, entry) ==
    LET t1 == IF ~dict_has(t, parameter) THEN dict_set(t, parameter, <<>>) ELSE t
    IN  dict_set(t1, parameter, Append(dict_get(t1, parameter), entry))

\* the loop over report.processed_data
RECURSIVE trends_of_report(_, _, _)
trends_of_report(report, data, t) ==
    IF data = <<>> THEN t
    ELSE trends_of_report(report, Tail(data),
             add_trend(t, Head(data).parameter,
                       [date |-> isoformat(report.created_at),
                        value |-> Head(data).value,
                        classification |-> Head(data).classification]))

\* the loop over the reports
RECURSIVE trends_loop(_, _)
trends_loop(reports, t) ==
    IF reports = <<>> THEN t
    ELSE trends_loop(Tail(reports),
             IF truthy(Head(reports).processed_data)
             THEN trends_of_report(Head(reports), Head(reports).processed_data.value, t)
             ELSE t)

generate_trends(reports) == trends_loop(reports, <<>>)

\* classified entries a stored report can hold
StoredEntries ==
    { classify_data(<<item>>)[1] :
        item \in { [key |-> "Glucose", value |-> 850],
                   [key |-> "Glucose", value |-> 1010],
                   [key |-> "Hemoglobin", value |-> 110] } }

\* values of the processed_data column: NULL, the empty list, lists of
\* one or two entries
StoredData ==
    {Null} \cup { Json(d) : d \in UNION { [1..k -> StoredEntries] : k \in 0..MaxEntries } }

\* timestamps of the rows
Timestamps == {1, 2}

ReportRows == [created_at : Timestamps, processed_data : StoredData]

GenerateTrends ==
    /\ pc = "history"
    /\ trends' = generate_trends(db_reports)
    /\ pc' = "trended"
    /\ UNCHANGED <<file_type, text, extracted_data, processed_data, insights,
                   risk_score, rule_score, error, stdout, predictorVars, db_reports, pdfVars, uploadVars>>

InitTrends ==
    /\ pc = "history"
    /\ file_type = None
    /\ text = None
    /\ extracted_data = None
    /\ processed_data = None
    /\ insights = None
    /\ risk_score = None
    /\ rule_score = None
    /\ error = "none"
    /\ stdout = <<>>
    /\ health_predictor = new_predictor
    /\ predicted = NotCalled
    /\ model_file = <<>>
    /\ db_reports \in UNION { [1..k -> ReportRows] : k \in 0..MaxReports }
    /\ trends = <<>>
    /\ db_report = NoReport
    /\ story = <<>>
    /\ files = <<>>
    /\ db = <<>>
    /\ req = <<>>

NextTrends ==
    \/ GenerateTrends

SpecTrends == InitTrends /\ [][NextTrends]_vars

-----------------------------------------------------------------------------
(* upload_report: invocations that share the working directory and the
   reports table *)

Requests == 1..NumRequests

GLUCOSE_90 == << <<"G","l","u","c","o","s","e">>, <<"9","0">> >>
GLUCOSE_300 == << <<"G","l","u","c","o","s","e">>, <<"-","3","0","0">> >>

\* the files clients send: two files of the same name and different
\* content, an empty file, a file of an unsupported type
Uploads == {
    [filename |-> "a.csv", content_type |-> TEXT_CSV,   content |-> GLUCOSE_90],
    [filename |-> "a.csv", content_type |-> TEXT_CSV,   content |-> GLUCOSE_300],
    [filename |-> "b.csv", content_type |-> TEXT_CSV,   content |-> <<>>],
    [filename |-> "c.txt", content_type |-> TEXT_PLAIN, content |-> GLUCOSE_90] }

\* f"temp_{file.filename}"
file_location(filename) == <<"temp_", filename>>

exists(fs, path) == path \in DOMAIN fs

\* open(path, "wb+") followed by write and close
write_file(fs, path, content) ==
    [x \in DOMAIN fs \cup {path} |-> IF x = path THEN content ELSE fs[x]]

\* os.remove of an existing file
remove_file(fs, path) == [x \in DOMAIN fs \ {path} |-> fs[x]]

\* the extraction strategies on a file: the file must exist, and an empty
\* file is not readable
extract_text(fs, path) ==
    IF ~exists(fs, path) THEN [raised |-> "FileNotFoundError", text |-> <<>>]
    ELSE IF fs[path] = <<>> THEN [raised |-> "ExtractionFailed", text |-> <<>>]
    ELSE [raised |-> "none", text |-> render(fs[path])]

\* process_report_file as one call on a file: the results it can give
process_report_file(fs, path, ft, self) ==
    IF strategy(ft) = "none"
    THEN { [raised |-> "ValueError", read |-> <<>>, processed_data |-> <<>>,
            insights |-> <<>>, risk_score |-> 0] }
    ELSE LET x == extract_text(fs, path)
         IN  IF x.raised # "none"
             THEN { [raised |-> x.raised, read |-> <<>>, processed_data |-> <<>>,
                     insights |-> <<>>, risk_score |-> 0] }
             ELSE LET data == parse_medical_data(x.text)
                      classified == classify_data(data)
                      ins == generate_insights(classified)
                  IN  IF ins.raised # "none"
                      THEN { [raised |-> ins.raised, read |-> <<fs[path]>>,
                              processed_data |-> <<>>, insights |-> <<>>, risk_score |-> 0] }
                      ELSE { [raised |-> calculate_ml_risk_score(o).raised,
                              read |-> <<fs[path]>>,
                              processed_data |-> classified, insights |-> ins.value,
                              risk_score |-> calculate_ml_risk_score(o).value]
                             : o \in predict_risk(self, data) }

\* crud.create_report: the row as stored, the nullable columns NULL
new_report(id, upload, now) ==
    [id |-> id, file_name |-> upload.filename, file_type |-> upload.content_type,
     original_data |-> Null, processed_data |-> Null, insights |-> Null,
     risk_score |-> Null, created_at |-> now]

\* variant: the filter on the id is missing, every row gets the columns
update_report_data_all(table, report_id, original_data, result) ==
    [i \in 1..Len(table) |->
        [table[i] EXCEPT !.original_data = Json(original_data),
                         !.processed_data = Json(result.processed_data),
                         !.insights = Json(result.insights),
                         !.risk_score = Json(result.risk_score)]]

\* crud.update_report_data: the row of the id gets the four columns
update_report_data(table, report_id, original_data, result) ==
    [i \in 1..Len(table) |->
        IF table[i].id = report_id
        THEN [table[i] EXCEPT !.original_data = Json(original_data),
                              !.processed_data = Json(result.processed_data),
                              !.insights = Json(result.insights),
                              !.risk_score = Json(result.risk_score)]
        ELSE table[i]]

NoResult == [raised |-> "none", read |-> <<>>, processed_data |-> <<>>,
             insights |-> <<>>, risk_score |-> 0]

\* lines 20-22: the upload is written to temp_<filename>
Save(r) ==
    /\ req[r].pc = "start"
    /\ files' = write_file(files, file_location(req[r].upload.filename), req[r].upload.content)
    /\ req' = [req EXCEPT ![r].pc = "saved"]
    /\ UNCHANGED <<pipelineVars, predictorVars, trendVars, pdfVars, db>>

\* lines 25-29: the row is inserted and committed
CreateReport(r) ==
    /\ req[r].pc = "saved"
    /\ db' = Append(db, new_report(Len(db) + 1, req[r].upload, Len(db) + 1))
    /\ req' = [req EXCEPT ![r].pc = "created", ![r].report_id = Len(db) + 1]
    /\ UNCHANGED <<pipelineVars, predictorVars, trendVars, pdfVars, files>>

\* line 29 raises (the commit fails): the exception leaves the handler
CreateReportFails(r) ==
    /\ req[r].pc = "saved"
    /\ req' = [req EXCEPT ![r].pc = "done", ![r].response = "500 SQLAlchemyError"]
    /\ UNCHANGED <<pipelineVars, predictorVars, trendVars, pdfVars, files, db>>

\* line 33: process_report_file on temp_<filename>
Process(r) ==
    /\ req[r].pc = "created"
    /\ \E result \in process_report_file(files, file_location(req[r].upload.filename),
                                         req[r].upload.content_type, health_predictor) :
          req' = [req EXCEPT ![r].pc = IF result.raised = "none" THEN "processed" ELSE "failed",
                             ![r].result = result,
                             ![r].exception = result.raised]
    /\ UNCHANGED <<pipelineVars, predictorVars, trendVars, pdfVars, files, db>>

\* lines 36-43: the row is updated and committed
Update(r) ==
    /\ req[r].pc = "processed"
    /\ db' = update_report_data(db, req[r].report_id,
                                [file_name |-> req[r].upload.filename], req[r].result)
    /\ req' = [req EXCEPT ![r].pc = "updated"]
    /\ UNCHANGED <<pipelineVars, predictorVars, trendVars, pdfVars, files>>

\* lines 36-43 raise (the commit fails)
UpdateFails(r) ==
    /\ req[r].pc = "processed"
    /\ req' = [req EXCEPT ![r].pc = "failed", ![r].exception = "SQLAlchemyError"]
    /\ UNCHANGED <<pipelineVars, predictorVars, trendVars, pdfVars, files, db>>

\* lines 46-49: os.remove in the try block, then the report is returned;
\* os.remove raises if the file is not there
Remove(r) ==
    /\ req[r].pc = "updated"
    /\ LET path == file_location(req[r].upload.filename)
       IN  IF exists(files, path)
           THEN /\ files' = remove_file(files, path)
                /\ req' = [req EXCEPT ![r].pc = "done", ![r].response = "200"]
           ELSE /\ req' = [req EXCEPT ![r].pc = "failed", ![r].exception = "FileNotFoundError"]
                /\ UNCHANGED files
    /\ UNCHANGED <<pipelineVars, predictorVars, trendVars, pdfVars, db>>

\* lines 50-54: os.remove in the except block, then HTTPException(500);
\* os.remove raises if the file is not there
Cleanup(r) ==
    /\ req[r].pc = "failed"
    /\ LET path == file_location(req[r].upload.filename)
       IN  IF exists(files, path)
           THEN /\ files' = remove_file(files, path)
                /\ req' = [req EXCEPT ![r].pc = "done", ![r].response = "500 HTTPException"]
           ELSE /\ req' = [req EXCEPT ![r].pc = "done", ![r].response = "500 FileNotFoundError"]
                /\ UNCHANGED files
    /\ UNCHANGED <<pipelineVars, predictorVars, trendVars, pdfVars, db>>

InitUpload ==
    /\ pc = "serving"
    /\ file_type = None
    /\ text = None
    /\ extracted_data = None
    /\ processed_data = None
    /\ insights = None
    /\ risk_score = None
    /\ rule_score = None
    /\ error = "none"
    /\ stdout = <<>>
    /\ health_predictor = new_predictor
    /\ predicted = NotCalled
    /\ model_file = <<>>
    /\ db_reports = <<>>
    /\ trends = <<>>
    /\ db_report = NoReport
    /\ story = <<>>
    /\ files = <<>>
    /\ db = <<>>
    /\ req \in [Requests -> { [pc |-> "start", upload |-> u, report_id |-> 0,
                               result |-> NoResult, exception |-> "none",
                               response |-> "none"] : u \in Uploads }]

NextUpload ==
    \E r \in Requests :
        \/ Save(r)
        \/ CreateReport(r)
        \/ CreateReportFails(r)
        \/ Process(r)
        \/ Update(r)
        \/ UpdateFails(r)
        \/ Remove(r)
        \/ Cleanup(r)

SpecUpload == InitUpload /\ [][NextUpload]_vars

-----------------------------------------------------------------------------
(* Properties of parse_medical_data, checked under SpecParse *)

\* the parameter names in lower case
LowerNames == [k \in DOMAIN NORMAL_RANGES |-> lower(Chars(k))]

\* position of a parameter in NORMAL_RANGES
key_index(k) == CHOOSE i \in 1..Len(NORMAL_RANGES_keys) : NORMAL_RANGES_keys[i] = k

Min(S) == CHOOSE x \in S : \A y \in S : x <= y

\* what a line says: the names it mentions in any case, whether it has a
\* numeric token and the value of the first one, and its owner: the first
\* name of NORMAL_RANGES it mentions, if it has a numeric token
line_facts(line) ==
    LET l == lower(line)
        names == { k \in DOMAIN NORMAL_RANGES : str_in(LowerNames[k], l) }
        has_number == \E i \in 1..Len(line) : IsDigit(line[i])
    IN  [names |-> names,
         has_number |-> has_number,
         number |-> IF has_number THEN float(findall(line)[1]) ELSE 0,
         owner |-> IF has_number /\ names # {}
                   THEN NORMAL_RANGES_keys[Min({ key_index(k) : k \in names })]
                   ELSE "none"]

\* the facts of every line of a text
text_facts(t) == LET ls == split(t) IN [n \in 1..Len(ls) |-> line_facts(ls[n])]

\* C1: the value returned for a parameter is the one of the earliest line
\* that gives it a value; later lines do not overwrite it.
C1_FirstOccurrenceWins ==
    pc = "parsed" =>
        LET F == text_facts(text)
        IN  \A k \in DOMAIN NORMAL_RANGES :
                LET owned == { n \in 1..Len(F) : F[n].owner = k }
                IN  owned # {} =>
                        /\ dict_has(extracted_data, k)
                        /\ dict_get(extracted_data, k) = F[Min(owned)].number

\* C6: a line gives a value to at most one parameter, the first name of
\* NORMAL_RANGES it mentions, and the value is the first numeric token of
\* the line; a line without a numeric token gives nothing; every key of
\* the result is a reference parameter.
C6_OneParameterPerLine ==
    pc = "parsed" =>
        LET F == text_facts(text)
        IN  /\ \A i \in 1..Len(extracted_data) :
                  /\ extracted_data[i].key \in DOMAIN NORMAL_RANGES
                  /\ \E n \in 1..Len(F) :
                        /\ F[n].owner = extracted_data[i].key
                        /\ F[n].number = extracted_data[i].value
            /\ \A k \in DOMAIN NORMAL_RANGES :
                  dict_has(extracted_data, k) <=> \E n \in 1..Len(F) : F[n].owner = k
            /\ Len(extracted_data) <= Cardinality({ n \in 1..Len(F) : F[n].has_number })

\* a line mentions two names and has a number, another mentions a name and
\* has no number
C6_Witness ==
    /\ pc = "parsed"
    /\ Len(extracted_data) = 1
    /\ LET F == text_facts(text)
       IN  /\ \E n \in 1..Len(F) : F[n].has_number /\ Cardinality(F[n].names) >= 2
           /\ \E n \in 1..Len(F) : ~F[n].has_number /\ F[n].names # {}

-----------------------------------------------------------------------------
(* Properties of the stages after parsing, checked under SpecStages *)

Abnormal == {"Low", "High"}

\* C2: every reference parameter of the input gets exactly one verdict,
\* fixed by its value and its range: Normal at min, at max and in between,
\* Low below min, High above max.
C2_ClassifyByRange ==
    pc # "parsed" =>
        \A i \in 1..Len(extracted_data) :
            LET k == extracted_data[i].key
                v == extracted_data[i].value
                entries == { j \in 1..Len(processed_data) : processed_data[j].parameter = k }
            IN  k \in DOMAIN NORMAL_RANGES =>
                    /\ Cardinality(entries) = 1
                    /\ \A j \in entries :
                          LET c == processed_data[j].classification
                              r == NORMAL_RANGES[k]
                          IN  /\ processed_data[j].value = v
                              /\ (v = r.min \/ v = r.max) => c = "Normal"
                              /\ (r.min < v /\ v < r.max) => c = "Normal"
                              /\ v < r.min => c = "Low"
                              /\ v > r.max => c = "High"

\* one value at min, one at max, one unit below min or above max
C2_Witness ==
    /\ pc = "classified"
    /\ \E i, j \in 1..Len(processed_data) :
          /\ processed_data[i].value \in {processed_data[i].range_min, processed_data[i].range_max}
          /\ processed_data[i].classification = "Normal"
          /\ processed_data[j].value = processed_data[j].range_max + 10
          /\ processed_data[j].classification = "High"

\* C3: generate_insights never raises, and every insight it gives belongs
\* to an entry classified Low or High whose verdict has an entry in
\* HEALTH_INSIGHTS.
C3_InsightsNeverRaise ==
    /\ pc # "raised"
    /\ pc = "insights" =>
          \A i \in 1..Len(insights) :
              \E j \in 1..Len(processed_data) :
                  /\ processed_data[j].parameter = insights[i].parameter
                  /\ processed_data[j].classification \in Abnormal
                  /\ insights[i].parameter \in DOMAIN HEALTH_INSIGHTS
                  /\ has_insight(insights[i].parameter, processed_data[j].classification)

\* number of Low/High entries of the classified sequence
K == Cardinality({ j \in 1..Len(processed_data) : processed_data[j].classification \in Abnormal })

\* C9: the rule-based score is 100*K/N for N > 0 entries of which K are
\* Low or High, and 0.0 for N = 0; it lies in [0, 100] and its divisor is
\* never zero.
C9_RuleScore ==
    pc = "scored" =>
        /\ rule_score.den # 0
        /\ Len(processed_data) > 0 =>
              rule_score.num * Len(processed_data) = 100 * K * rule_score.den
        /\ Len(processed_data) = 0 => rule_score.num = 0
        /\ 0 <= rule_score.num
        /\ rule_score.num <= 100 * rule_score.den

\* a score strictly between 0 and 100
C9_Witness ==
    /\ pc = "scored"
    /\ Len(processed_data) = 2
    /\ K = 1
    /\ rule_score.num = 50 * rule_score.den

-----------------------------------------------------------------------------
(* Properties of the model-based score *)

C8_UntrainedReturnsDefault ==
    (predicted.raised # "not called"
        /\ (~health_predictor.is_trained \/ health_predictor.model = None)) =>
        /\ predicted.raised = "none"
        /\ predicted.value = FALLBACK
        /\ ~predicted.scaler_used
        /\ ~predicted.model_used

\* the import-time training raised after the model was assigned, and
\* predict_risk was called with a non-empty report
C8_Witness ==
    /\ predicted.raised = "none"
    /\ ~health_predictor.is_trained
    /\ health_predictor.model # None
    /\ stdout = <<"Error training model">>
    /\ extracted_data # <<>>

-----------------------------------------------------------------------------
(* Properties of generate_trends, checked under SpecTrends *)

\* the occurrences of a parameter: (report, entry) positions, in the order
\* of the reports and of the entries within a report
occurrences(p) ==
    { rc \in (1..Len(db_reports)) \X (1..MaxEntries) :
        /\ ~db_reports[rc[1]].processed_data.is_null
        /\ rc[2] <= Len(db_reports[rc[1]].processed_data.value)
        /\ db_reports[rc[1]].processed_data.value[rc[2]].parameter = p }

before(a, b) == a[1] < b[1] \/ (a[1] = b[1] /\ a[2] < b[2])

\* the k-th occurrence of a set of occurrences
nth(occ, k) == CHOOSE a \in occ : Cardinality({ b \in occ : before(b, a) }) = k - 1

\* C10: the series of a parameter has exactly one entry per occurrence of
\* the parameter in the reports, in the order of the reports, each with the
\* date, value and classification of its report; a parameter is a key
\* only if some report contains it, and each key appears once.
C10_TrendsFollowReports ==
    pc = "trended" =>
        /\ \A i, j \in 1..Len(trends) : i # j => trends[i].key # trends[j].key
        /\ \A i \in 1..Len(trends) : occurrences(trends[i].key) # {}
        /\ \A p \in DOMAIN NORMAL_RANGES :
              LET occ == occurrences(p)
              IN  occ # {} =>
                    /\ dict_has(trends, p)
                    /\ Len(dict_get(trends, p)) = Cardinality(occ)
                    /\ \A k \in 1..Cardinality(occ) :
                          LET a == nth(occ, k)
                              source == db_reports[a[1]]
                              entry == source.processed_data.value[a[2]]
                          IN  dict_get(trends, p)[k] =
                                  [date |-> isoformat(source.created_at),
                                   value |-> entry.value,
                                   classification |-> entry.classification]

\* two reports with the same timestamp both hold the first parameter of the
\* series, with different values
C10_Witness ==
    /\ pc = "trended"
    /\ Len(db_reports) = 2
    /\ db_reports[1].created_at = db_reports[2].created_at
    /\ Len(trends) = 1
    /\ Len(trends[1].value) = 2
    /\ trends[1].value[1].date = trends[1].value[2].date
    /\ trends[1].value[1].value # trends[1].value[2].value

-----------------------------------------------------------------------------
(* Properties of upload_report, checked under SpecUpload *)

\* C4: the step in which an invocation returns or raises leaves no file
\* temp_<filename> behind.
C4_TempFileRemovedOnExit ==
    [][\A r \in Requests :
          (req[r].pc # "done" /\ req'[r].pc = "done") =>
              ~exists(files', file_location(req[r].upload.filename))]_vars

\* the results of process_report_file for an upload handled on its own
alone_results(upload) ==
    process_report_file(write_file(<<>>, file_location(upload.filename), upload.content),
                        file_location(upload.filename), upload.content_type,
                        health_predictor)

\* C5: under every interleaving an invocation processes the bytes it was
\* given, removes its temporary file without error and gets the result it
\* gets when it runs alone.
C5_UploadsIndependent ==
    \A r \in Requests :
        /\ req[r].result.read # <<>> => req[r].result.read = <<req[r].upload.content>>
        /\ req[r].exception # "FileNotFoundError"
        /\ req[r].response # "500 FileNotFoundError"
        /\ req[r].pc \in {"processed", "updated"} => req[r].result \in alone_results(req[r].upload)

-----------------------------------------------------------------------------
(* Properties of process_report_file, checked under Spec *)

\* the stages after the extraction
LaterStages == {"extracted", "parsed", "classified", "insights"}

\* C11: once the extraction has returned a text no later stage raises: the
\* only exceptions that leave the call are those of the selection and
\* extraction step, a later stage leaves no exception behind, and the call
\* returns the classified parameters, the insights and the risk score.
C11_NoFailureAfterExtraction ==
    /\ pc = "raised" => error \in {"ValueError", "ExtractionFailed"}
    /\ pc \in LaterStages => error = "none"
    /\ pc = "returned" =>
          /\ error = "none"
          /\ Len(processed_data) = Len(extracted_data)
          /\ Len(insights) <= Len(processed_data)
          /\ risk_score \in 0..1000

\* the call returned for a text that gives Cholesterol a value written with
\* a minus sign, after predict_risk raised
C11_Witness ==
    /\ pc = "returned"
    /\ str_in(<<"-">>, text)
    /\ dict_has(extracted_data, "Cholesterol")
    /\ predicted.raised = "model"

\* the declared type matches image/*, application/pdf or text/csv
matches_supported(ft) ==
    \/ startswith(ft, <<"i","m","a","g","e","/">>)
    \/ ft = APPLICATION_PDF
    \/ ft = TEXT_CSV

\* C12: for a content type that matches none of image/*, application/pdf
\* and text/csv the call fails with the unsupported-format error, no
\* extraction strategy runs and no result is produced.
C12_UnsupportedTypeFails ==
    ~matches_supported(file_type) =>
        /\ pc \in {"start", "raised"}
        /\ pc = "raised" => error = "ValueError"

-----------------------------------------------------------------------------
(* Properties of save_model and load_model, checked under SpecPredictor *)

\* C13: after load_model of an artifact whose is_trained flag is false, and
\* after an attempt to load an absent artifact, every predict_risk call
\* returns 50.0 without raising.
C13_LoadValidatesFlag ==
    [][\A filepath \in Paths :
          (/\ LoadModel(filepath)
           /\ \/ model_file[filepath] = <<>>
              \/ ~model_file[filepath][1].is_trained)
          => \A report_data \in SampleData :
                \A o \in predict_risk(health_predictor', report_data) :
                   o.raised = "none" /\ o.value = FALLBACK]_vars

\* the states a predictor can be in when load_model is called on it
Predictors == Bundles

-----------------------------------------------------------------------------
(* generate_pdf_report: the flowables of the PDF of one report row *)

\* str(n) of a natural number
RECURSIVE str_of_nat(_)
str_of_nat(n) ==
    IF n < 10 THEN <<DIGITS[n + 1]>>
    ELSE str_of_nat(n \div 10) \o <<DIGITS[(n % 10) + 1]>>

\* str(x) of a float held in tenths: 850 gives 85.0
str_of_float(x) ==
    LET a == IF x < 0 THEN 0 - x ELSE x
    IN  (IF x < 0 THEN <<"-">> ELSE <<>>)
        \o str_of_nat(a \div 10) \o <<".">> \o <<DIGITS[(a % 10) + 1]>>

\* f"{x:.2f}" of a float held in tenths: 365 gives 36.50
format_2f(x) == str_of_float(x) \o <<"0">>

\* str(report.created_at)
str_of_datetime(t) == str_of_nat(t)

\* the flowables; a text is the sequence of its pieces
Paragraph(txt, style) ==
    [flowable |-> "Paragraph", text |-> txt, style |-> style, height |-> 0, data |-> <<>>]
Spacer(width, height) ==
    [flowable |-> "Spacer", text |-> <<>>, style |-> "", height |-> height, data |-> <<>>]
Table(data) ==
    [flowable |-> "Table", text |-> <<>>, style |-> "", height |-> 0, data |-> data]

\* the rows of the results table: the header, then one row per entry
table_data(entries) ==
    << << <<"Parameter">>, <<"Value">>, <<"Unit">>, <<"Range">>, <<"Classification">> >> >>
    \o [i \in 1..Len(entries) |->
          << <<entries[i].parameter>>,
             str_of_float(entries[i].value),
             <<entries[i].unit>>,
             str_of_float(entries[i].range_min) \o <<"-">> \o str_of_float(entries[i].range_max),
             <<entries[i].classification>> >>]

\* two paragraphs and a spacer per insight
RECURSIVE insight_flowables(_)
insight_flowables(list) ==
    IF list = <<>> THEN <<>>
    ELSE << Paragraph(<<"<b>", Head(list).parameter, ":</b> ", Head(list).insight>>, "Normal"),
            Paragraph(<<"Recommendation: ", Head(list).recommendation>>, "Italic"),
            Spacer(1, 6) >>
         \o insight_flowables(Tail(list))

\* variant: the score is tested for truth, so that 0.0 counts as absent
has_risk_score_truthy(r) == ~r.risk_score.is_null /\ r.risk_score.value # 0

\* report.risk_score is not None
has_risk_score(r) == ~r.risk_score.is_null

\* generate_pdf_report: the story handed to doc.build
generate_pdf_report(r) ==
    LET title    == << Paragraph(<<"Health Analytics Report">>, "Title"), Spacer(1, 12) >>
        metadata == << Paragraph(<<"Report ID: ">> \o str_of_nat(r.id)
                                 \o <<" | Date: ">> \o str_of_datetime(r.created_at),
                                 "Normal"),
                       Spacer(1, 12) >>
        results  == IF truthy(r.processed_data)
                    THEN << Paragraph(<<"Test Results">>, "Heading2"),
                            Table(table_data(r.processed_data.value)),
                            Spacer(1, 12) >>
                    ELSE <<>>
        advice   == IF truthy(r.insights)
                    THEN << Paragraph(<<"Health Insights">>, "Heading2") >>
                         \o insight_flowables(r.insights.value)
                    ELSE <<>>
        risk     == IF has_risk_score(r)
                    THEN << Paragraph(<<"Risk Score">>, "Heading2"),
                            Paragraph(<<"Overall Risk Score: ">>
                                      \o format_2f(r.risk_score.value) \o <<"%">>,
                                      "Normal") >>
                    ELSE <<>>
    IN  title \o metadata \o results \o advice \o risk

\* the classified lists a processed report holds
ProcessedLists == { d.value : d \in StoredData \ {Null} }

\* the scores a processed report holds
StoredScores == Probabilities \cup {FALLBACK}

\* report ids
ReportIds == {1, 12}

\* the rows of the reports table: as create_report leaves them, or as
\* update_report_data fills them from one result of process_report_file
PdfReports ==
    { [id |-> i, created_at |-> t, processed_data |-> Null, insights |-> Null,
       risk_score |-> Null] : i \in ReportIds, t \in Timestamps }
    \cup
    { [id |-> i, created_at |-> t, processed_data |-> Json(d),
       insights |-> Json(generate_insights(d).value), risk_score |-> Json(v)]
      : i \in ReportIds, t \in Timestamps, d \in ProcessedLists, v \in StoredScores }

\* download_report: the PDF of the row
GeneratePdf ==
    /\ pc = "download"
    /\ story' = generate_pdf_report(db_report)
    /\ pc' = "rendered"
    /\ UNCHANGED <<file_type, text, extracted_data, processed_data, insights,
                   risk_score, rule_score, error, stdout, predictorVars, trendVars,
                   db_report, uploadVars>>

InitPdf ==
    /\ pc = "download"
    /\ file_type = None
    /\ text = None
    /\ extracted_data = None
    /\ processed_data = None
    /\ insights = None
    /\ risk_score = None
    /\ rule_score = None
    /\ error = "none"
    /\ stdout = <<>>
    /\ health_predictor = new_predictor
    /\ predicted = NotCalled
    /\ model_file = <<>>
    /\ db_reports = <<>>
    /\ trends = <<>>
    /\ db_report \in PdfReports
    /\ story = <<>>
    /\ files = <<>>
    /\ db = <<>>
    /\ req = <<>>

NextPdf == GeneratePdf

SpecPdf == InitPdf /\ [][NextPdf]_vars

-----------------------------------------------------------------------------
(* Properties of generate_pdf_report, checked under SpecPdf *)

\* the positions of the story that hold a paragraph of the given text
positions(txt) ==
    { i \in 1..Len(story) : story[i].flowable = "Paragraph" /\ story[i].text = txt }

\* the positions that hold the score line, and those that hold a table
score_lines ==
    { i \in 1..Len(story) :
        /\ story[i].flowable = "Paragraph"
        /\ story[i].text # <<>>
        /\ story[i].text[1] = "Overall Risk Score: " }
tables == { i \in 1..Len(story) : story[i].flowable = "Table" }

\* C15: the PDF starts with the title and then the metadata; it has the
\* 'Test Results' heading and table exactly when processed_data is
\* non-empty, the 'Health Insights' heading exactly when the insight list
\* is non-empty, and the 'Risk Score' heading and line exactly when
\* risk_score is not null, a score of 0.0 being rendered as 0.00; every
\* section comes after the metadata.
C15_PdfSections ==
    pc = "rendered" =>
        LET has_data     == ~db_report.processed_data.is_null
                            /\ Len(db_report.processed_data.value) > 0
            has_insights == ~db_report.insights.is_null
                            /\ Len(db_report.insights.value) > 0
            has_score    == ~db_report.risk_score.is_null
            sections     == positions(<<"Test Results">>) \cup tables
                            \cup positions(<<"Health Insights">>)
                            \cup positions(<<"Risk Score">>) \cup score_lines
        IN  /\ positions(<<"Health Analytics Report">>) = {1}
            /\ story[3].flowable = "Paragraph"
            /\ story[3].text[1] = "Report ID: "
            /\ \A i \in sections : i > 3
            /\ Cardinality(positions(<<"Test Results">>)) = (IF has_data THEN 1 ELSE 0)
            /\ Cardinality(tables) = (IF has_data THEN 1 ELSE 0)
            /\ has_data =>
                  \A i \in tables :
                     Len(story[i].data) = Len(db_report.processed_data.value) + 1
            /\ Cardinality(positions(<<"Health Insights">>)) = (IF has_insights THEN 1 ELSE 0)
            /\ has_insights =>
                  \A i \in positions(<<"Health Insights">>) :
                     i < Len(story) /\ story[i + 1].flowable = "Paragraph"
            /\ Cardinality(positions(<<"Risk Score">>)) = (IF has_score THEN 1 ELSE 0)
            /\ Cardinality(score_lines) = (IF has_score THEN 1 ELSE 0)
            /\ has_score =>
                  \A i \in score_lines :
                     story[i].text = <<"Overall Risk Score: ">>
                                     \o format_2f(db_report.risk_score.value) \o <<"%">>
            /\ (has_score /\ db_report.risk_score.value = 0) =>
                  \A i \in score_lines :
                     story[i].text = <<"Overall Risk Score: ", "0", ".", "0", "0", "%">>

\* a processed report with an empty result list and a score of 0.0: only
\* the title, the metadata and the risk score are rendered
C15_Witness ==
    /\ pc = "rendered"
    /\ ~db_report.processed_data.is_null
    /\ db_report.processed_data.value = <<>>
    /\ db_report.risk_score.value = 0
    /\ Len(story) = 6
    /\ story[6].text = <<"Overall Risk Score: ", "0", ".", "0", "0", "%">>

-----------------------------------------------------------------------------
(* Order of the stage results, checked under SpecParse *)

\* the parameters of ins occur in data, in the same order
RECURSIVE is_subsequence(_, _)
is_subsequence(ins, data) ==
    IF ins = <<>> THEN TRUE
    ELSE IF data = <<>> THEN FALSE
    ELSE IF Head(ins).parameter = Head(data).parameter
         THEN is_subsequence(Tail(ins), Tail(data))
         ELSE is_subsequence(ins, Tail(data))

\* C16: classify_data gives one entry per item of the extracted mapping, in
\* the order of the mapping and with its value; generate_insights gives at
\* most one insight per entry, and the parameters of the insights follow
\* the order of the classified entries.
C16_OrderPreserved ==
    /\ pc \in {"classified", "insights"} =>
          /\ Len(processed_data) = Len(extracted_data)
          /\ \A i \in 1..Len(processed_data) :
                /\ processed_data[i].parameter = extracted_data[i].key
                /\ processed_data[i].value = extracted_data[i].value
    /\ pc = "insights" =>
          /\ Len(insights) <= Len(processed_data)
          /\ is_subsequence(insights, processed_data)
          /\ \A i, j \in 1..Len(insights) :
                i # j => insights[i].parameter # insights[j].parameter

\* two parameters with a verdict outside the range, the second one in the
\* key order extracted first: the insights keep the order of extraction
C16_Witness ==
    /\ pc = "insights"
    /\ Len(processed_data) = 2
    /\ Len(insights) = 2
    /\ processed_data[1].parameter = "Glucose"
    /\ insights[1].parameter = "Glucose"
    /\ insights[2].parameter = "Hemoglobin"

-----------------------------------------------------------------------------
(* Sign of the parsed values, checked under Spec *)

\* C17: no value of parse_medical_data is negative, so no parameter whose
\* reference minimum is 0.0 is classified Low in a result of
\* process_report_file, and no Low entry of Cholesterol is handed to
\* generate_insights.
C17_NoNegativeValues ==
    /\ pc \in {"parsed", "classified", "insights", "returned"} =>
          \A i \in 1..Len(extracted_data) : extracted_data[i].value >= 0
    /\ pc \in {"classified", "insights", "returned", "raised"} /\ error \notin {"ValueError", "ExtractionFailed"} =>
          \A i \in 1..Len(processed_data) :
             /\ NORMAL_RANGES[processed_data[i].parameter].min = 0
                   => processed_data[i].classification # "Low"
             /\ ~(processed_data[i].parameter = "Cholesterol"
                  /\ processed_data[i].classification = "Low")

\* a document gives Cholesterol a number written with a minus sign: the
\* value is positive, the verdict is High and the call returned
C17_Witness ==
    /\ pc = "returned"
    /\ str_in(<<"-","3","0","0">>, text)
    /\ \E i \in 1..Len(processed_data) :
          /\ processed_data[i].parameter = "Cholesterol"
          /\ processed_data[i].value = 3000
          /\ processed_data[i].classification = "High"
    /\ Len(insights) = 1

-----------------------------------------------------------------------------
(* Rows of failed uploads, checked under SpecUpload *)

\* the rows of the table with the given id
rows_of(table, id) == SelectSeq(table, LAMBDA row : row.id = id)

\* the table without the rows of the given id
rows_without(table, id) == SelectSeq(table, LAMBDA row : row.id # id)

\* C18: once process_report_file has raised in an upload, the row created
\* for that upload stays in the table with processed_data, insights and
\* risk_score null, and generate_trends gives the same trends with and
\* without that row.
C18_FailedUploadRowStays ==
    \A r \in Requests :
        req[r].result.raised # "none" =>
            /\ req[r].report_id # 0
            /\ Len(rows_of(db, req[r].report_id)) = 1
            /\ LET row == rows_of(db, req[r].report_id)[1]
               IN  /\ row.processed_data = Null
                   /\ row.insights = Null
                   /\ row.risk_score = Null
            /\ generate_trends(db) = generate_trends(rows_without(db, req[r].report_id))

\* one upload failed on its content type and has been answered, another
\* one was processed and stored: the table has both rows and the trends
\* come from the processed one
C18_Witness ==
    /\ Len(db) = 2
    /\ \E r \in Requests :
          /\ req[r].pc = "done"
          /\ req[r].result.raised = "ValueError"
          /\ rows_of(db, req[r].report_id)[1].processed_data = Null
    /\ generate_trends(db) # <<>>

=============================================================================
